---- MODULE Spec2Model ----
(***************************************************************************)
(* A model of typst_inkscape.py: the dimension resolver, the transform     *)
(* parser, the cumulative transform resolver and the text label extraction *)
(* loop of process_svg, followed by the removal of the text nodes and the  *)
(* writing of the two output files.                                        *)
(*                                                                         *)
(* Python strings are sequences of lexemes: one-character strings, and for *)
(* transform and style strings the keywords ("translate", "font-size:",    *)
(* "px", ...) as single lexemes.  Python floats are exact rationals        *)
(* <<numerator, denominator>>; floating-point rounding is not modelled.    *)
(* A Python call that may raise returns a record [err, val] whose err is   *)
(* "" on a normal return and the exception's name otherwise.               *)
(***************************************************************************)
EXTENDS Integers, Sequences, FiniteSets, TLC

VARIABLES
    pc,                   \* position of the run in process_svg / of the pure call
    attrib,               \* root.attrib: the root element's attributes
    node,                 \* the elements of the parsed tree, in document order
    parent,               \* getparent() of every element (0 is None)
    width_pt, height_pt,  \* process_svg's resolved dimensions
    labels,               \* process_svg's labels list
    text_nodes_to_remove, \* process_svg's removal list
    k,                    \* position of the for loops in their sequences
    text_node,            \* the element of the current iteration (0 before the first)
    font_size_px,         \* process_svg's local of the same name, last computed
    transform_matrix,     \* process_svg's local of the same name, last computed
    files,                \* the output files written so far
    typst_code,           \* the place(...) calls written to the overlay script
    calls,                \* the function calls a transform string was written from
    transform_str,        \* the argument of a parse_transform call
    total_transform       \* what that call returned or raised

vars == <<pc, attrib, node, parent, width_pt, height_pt, labels,
          text_nodes_to_remove, k, text_node, font_size_px, transform_matrix,
          files, typst_code, calls, transform_str, total_transform>>

\* ------------------------------------------------------------------------
\* Bounds of the model
\* ------------------------------------------------------------------------

\* the longest list of transform functions in one generated transform string
MaxFuncs == 3

\* the deepest chain of ancestors between the root and a text element
MaxDepth == 3

\* the largest number of text elements in one document
MaxTexts == 3

\* ------------------------------------------------------------------------
\* Exact rational arithmetic standing for Python floats
\* ------------------------------------------------------------------------

Abs(n) == IF n < 0 THEN -n ELSE n

RECURSIVE GCD(_, _)
GCD(a, b) == IF b = 0 THEN a ELSE GCD(b, a % b)

\* n/d divided through by the common divisor g, with a positive denominator
Reduced(n, d, g) ==
    IF d < 0 THEN <<(-n) \div g, (-d) \div g>> ELSE <<n \div g, d \div g>>

\* n/d in lowest terms
Rat(n, d) == Reduced(n, d, GCD(Abs(n), Abs(d)))

RInt(n) == <<n, 1>>
RAdd(a, b) == Rat(a[1] * b[2] + b[1] * a[2], a[2] * b[2])
RSub(a, b) == Rat(a[1] * b[2] - b[1] * a[2], a[2] * b[2])
RMul(a, b) == Rat(a[1] * b[1], a[2] * b[2])
RAbs(a) == <<Abs(a[1]), a[2]>>
RNeg(a) == <<-a[1], a[2]>>

\* the integer square root of a perfect square
ISqrt(n) == CHOOSE r \in 0..n : r * r = n

\* np.sqrt on the rationals whose root is rational
RSqrt(a) == <<ISqrt(a[1]), ISqrt(a[2])>>

PX_TO_PT == Rat(72, 96)

\* ------------------------------------------------------------------------
\* 3x3 matrices
\* ------------------------------------------------------------------------

Identity3 ==
    << <<RInt(1), RInt(0), RInt(0)>>,
       <<RInt(0), RInt(1), RInt(0)>>,
       <<RInt(0), RInt(0), RInt(1)>> >>

\* A @ B
MatMul(A, B) ==
    [i \in 1..3 |-> [j \in 1..3 |->
        RAdd(RAdd(RMul(A[i][1], B[1][j]), RMul(A[i][2], B[2][j])),
             RMul(A[i][3], B[3][j]))]]

\* A @ np.array([x, y, 1])
MatVec(A, v) ==
    [i \in 1..3 |->
        RAdd(RAdd(RMul(A[i][1], v[1]), RMul(A[i][2], v[2])), RMul(A[i][3], v[3]))]

\* ------------------------------------------------------------------------
\* Strings
\* ------------------------------------------------------------------------

Digits == {"0", "1", "2", "3", "4", "5", "6", "7", "8", "9"}

DigitVal(c) ==
    CASE c = "0" -> 0 [] c = "1" -> 1 [] c = "2" -> 2 [] c = "3" -> 3
      [] c = "4" -> 4 [] c = "5" -> 5 [] c = "6" -> 6 [] c = "7" -> 7
      [] c = "8" -> 8 [] c = "9" -> 9

Whitespace == {" "}

SetMin(S) == CHOOSE x \in S : \A y \in S : x <= y
SetMax(S) == CHOOSE x \in S : \A y \in S : x >= y

\* the first index of S, or end when there is none
FirstIn(S, end) == IF S = {} THEN end ELSE SetMin(S)

\* s between the first and the last of the indices keep
Between(s, keep) ==
    IF keep = {} THEN <<>> ELSE SubSeq(s, SetMin(keep), SetMax(keep))

\* str.strip()
Strip(s) == Between(s, {i \in 1..Len(s) : s[i] \notin Whitespace})

RECURSIVE Pow10(_)
Pow10(n) == IF n = 0 THEN 1 ELSE 10 * Pow10(n - 1)

RECURSIVE DigitsValue(_)
DigitsValue(s) ==
    IF s = <<>> THEN 0
    ELSE 10 * DigitsValue(SubSeq(s, 1, Len(s) - 1)) + DigitVal(s[Len(s)])

Ok(v) == [err |-> "", val |-> v]
Raise(e, v) == [err |-> e, val |-> v]

\* body is digits with at most one dot and at least one digit
IsDecimal(body) ==
    /\ \A i \in 1..Len(body) : body[i] \in Digits \cup {"."}
    /\ Cardinality({i \in 1..Len(body) : body[i] = "."}) <= 1
    /\ \E i \in 1..Len(body) : body[i] \in Digits

\* the number of digits after the dot at index dot (0 for no dot)
FracLen(body, dot) == IF dot = 0 THEN 0 ELSE Len(body) - dot

\* the value of a decimal
DecimalValue(body) ==
    Rat(DigitsValue(SelectSeq(body, LAMBDA c : c \in Digits)),
        Pow10(FracLen(body, FirstIn({i \in 1..Len(body) : body[i] = "."}, 0))))

\* float of a sign and what follows it
FloatSigned(sign, body) ==
    IF ~IsDecimal(body) THEN Raise("ValueError", RInt(0))
    ELSE IF sign = "-" THEN Ok(RNeg(DecimalValue(body)))
    ELSE Ok(DecimalValue(body))

\* float of a string without surrounding whitespace
FloatStripped(t) ==
    IF t # <<>> /\ t[1] \in {"-", "+"} THEN FloatSigned(t[1], Tail(t))
    ELSE FloatSigned("+", t)

\* float(s) for the decimal literals [sign] digits [. digits], surrounded by
\* optional whitespace; anything else raises ValueError
Float(s) == FloatStripped(Strip(s))

\* [float(x) for x in parts], each with its outcome
FloatAll(parts) == [a \in 1..Len(parts) |-> Float(parts[a])]

\* whether one of the conversions raised
AnyRaised(floats) == \E a \in 1..Len(floats) : floats[a].err # ""

\* the converted values
Values(floats) == [a \in 1..Len(floats) |-> floats[a].val]

Separators == Whitespace \cup {","}

\* re.split(r'[,\s]+', s), and SplitAt: the same given the index i of the
\* first separator of s (0 for none)
RECURSIVE ReSplit(_)
RECURSIVE SplitAt(_, _)
ReSplit(s) == SplitAt(s, FirstIn({i \in 1..Len(s) : s[i] \in Separators}, 0))

SplitAt(s, i) ==
    IF i = 0 THEN <<s>>
    ELSE <<SubSeq(s, 1, i - 1)>>
             \o ReSplit(SubSeq(s, FirstIn({j \in i..Len(s) : s[j] \notin Separators},
                                          Len(s) + 1),
                               Len(s)))

\* ------------------------------------------------------------------------
\* parse_transform
\* ------------------------------------------------------------------------

RecognizedFuncs == {"matrix", "translate", "scale"}

\* the first position from i on that holds no whitespace
SkipSpaces(s, i) == FirstIn({j \in i..Len(s) : s[j] \notin Whitespace}, Len(s) + 1)

\* the first position from i on that holds a closing parenthesis
FirstClose(s, i) == FirstIn({j \in i..Len(s) : s[j] = ")"}, Len(s) + 1)

NoMatch(i) == [found |-> FALSE, func |-> "", args_str |-> <<>>, next |-> i + 1]

\* ... \(([^)]+)\) with the parenthesis at p and the first ) after it at c
MatchArgs(s, i, f, p, c) ==
    IF c <= Len(s) /\ c > p + 1
    THEN [found |-> TRUE, func |-> s[f], args_str |-> SubSeq(s, p + 1, c - 1),
          next |-> c + 1]
    ELSE NoMatch(i)

\* ... \s*\( ... with the first position p after the name that is no space
MatchParen(s, i, f, p) ==
    IF p <= Len(s) /\ s[p] = "(" THEN MatchArgs(s, i, f, p, FirstClose(s, p + 1))
    ELSE NoMatch(i)

\* \s*(matrix|translate|scale) ... with the first position f that is no space
MatchFunc(s, i, f) ==
    IF f <= Len(s) /\ s[f] \in RecognizedFuncs
    THEN MatchParen(s, i, f, SkipSpaces(s, f + 1))
    ELSE NoMatch(i)

\* one match of r'\s*(matrix|translate|scale)\s*\(([^)]+)\)' starting at
\* position i of s: [found, func, args_str, next], next being the position
\* after the match
MatchAt(s, i) == MatchFunc(s, i, SkipSpaces(s, i))

\* re.findall(pattern, s) from position i on, and FoundAt: the same given
\* the match m at position i
RECURSIVE FindAll(_, _)
RECURSIVE FoundAt(_, _)
FindAll(s, i) == IF i > Len(s) THEN <<>> ELSE FoundAt(s, MatchAt(s, i))

FoundAt(s, m) ==
    IF m.found
    THEN <<[func |-> m.func, args_str |-> m.args_str]>> \o FindAll(s, m.next)
    ELSE FindAll(s, m.next)

\* m of a translate
TranslateMatrix(tx, ty) ==
    << <<RInt(1), RInt(0), tx>>, <<RInt(0), RInt(1), ty>>, <<RInt(0), RInt(0), RInt(1)>> >>

\* m of a scale
ScaleMatrix(sx, sy) ==
    << <<sx, RInt(0), RInt(0)>>, <<RInt(0), sy, RInt(0)>>, <<RInt(0), RInt(0), RInt(1)>> >>

\* the matrix m built by one iteration of parse_transform's loop
FuncMatrix(func, args) ==
    IF func = "matrix" /\ Len(args) = 6
    THEN << <<args[1], args[3], args[5]>>,
            <<args[2], args[4], args[6]>>,
            <<RInt(0), RInt(0), RInt(1)>> >>
    ELSE IF func = "translate"
    THEN TranslateMatrix(args[1], IF Len(args) > 1 THEN args[2] ELSE RInt(0))
    ELSE IF func = "scale"
    THEN ScaleMatrix(args[1], IF Len(args) > 1 THEN args[2] ELSE args[1])
    ELSE Identity3

\* the accumulator multiplied from the other side
AccumulateRight(m, total) == MatMul(total, m)

\* how parse_transform combines the matrix of the next function with the
\* accumulator
Accumulate(m, total) == MatMul(m, total)

\* parse_transform's loop over the matches from the j-th on, and LoopBody:
\* its j-th iteration given the conversions of the arguments
RECURSIVE ParseLoop(_, _, _)
RECURSIVE LoopBody(_, _, _, _)
ParseLoop(matches, j, total) ==
    IF j > Len(matches) THEN Ok(total)
    ELSE LoopBody(matches, j, total, FloatAll(ReSplit(Strip(matches[j].args_str))))

LoopBody(matches, j, total, floats) ==
    IF AnyRaised(floats) THEN Raise("ValueError", Identity3)
    ELSE ParseLoop(matches, j + 1,
                   Accumulate(FuncMatrix(matches[j].func, Values(floats)), total))

parse_transform(str) ==
    IF str = <<>> THEN Ok(Identity3)
    ELSE ParseLoop(FindAll(str, 1), 1, Identity3)

\* ------------------------------------------------------------------------
\* Transform strings the parser is applied to
\* ------------------------------------------------------------------------

\* the text of an argument as it stands in the attribute
ArgChars(a) ==
    CASE a = "0" -> <<"0">> [] a = "1" -> <<"1">> [] a = "2" -> <<"2">>
      [] a = "3" -> <<"3">> [] a = "5" -> <<"5">>
      [] a = "-1" -> <<"-", "1">> [] a = "-3" -> <<"-", "3">>
      [] a = "0.5" -> <<"0", ".", "5">>
      [] a = "x" -> <<"x">>

\* the number a numeric argument denotes
ArgValue(a) ==
    CASE a = "0" -> RInt(0) [] a = "1" -> RInt(1) [] a = "2" -> RInt(2)
      [] a = "3" -> RInt(3) [] a = "5" -> RInt(5)
      [] a = "-1" -> RInt(-1) [] a = "-3" -> RInt(-3)
      [] a = "0.5" -> Rat(1, 2)
      [] a = "x" -> RInt(0)

Call(f, a, s) == [func |-> f, args |-> a, sep |-> s]

ParseCalls ==
    { Call("translate", <<>>, <<",">>),
      Call("translate", <<"2">>, <<",">>),
      Call("translate", <<"2", "-1">>, <<",">>),
      Call("translate", <<"3", "5">>, <<" ">>),
      Call("translate", <<"x">>, <<",">>),
      Call("translate", <<"2", "-1", "3">>, <<",">>),
      Call("scale", <<"2">>, <<",">>),
      Call("scale", <<"2", "-1">>, <<",", " ">>),
      Call("scale", <<"0.5", "3">>, <<" ">>),
      Call("scale", <<"2", "x">>, <<",">>),
      Call("matrix", <<"0", "1", "-1", "0", "2", "3">>, <<",">>),
      Call("matrix", <<"2", "0", "0", "3">>, <<" ">>),
      Call("rotate", <<"2">>, <<",">>),
      Call("skewX", <<"2">>, <<",">>) }

RECURSIVE SeqsUpTo(_, _)
SeqsUpTo(S, n) ==
    IF n = 0 THEN {<<>>}
    ELSE LET shorter == SeqsUpTo(S, n - 1)
         IN  shorter \cup {Append(q, x) : q \in shorter, x \in S}

RECURSIVE JoinArgs(_, _)
JoinArgs(args, sep) ==
    IF args = <<>> THEN <<>>
    ELSE IF Len(args) = 1 THEN ArgChars(args[1])
    ELSE ArgChars(args[1]) \o sep \o JoinArgs(Tail(args), sep)

\* the attribute text of a list of function calls: f(a, b) g(c) ...
RECURSIVE Render(_)
Render(cs) ==
    IF cs = <<>> THEN <<>>
    ELSE LET c == cs[1]
             one == <<c.func, "(">> \o JoinArgs(c.args, c.sep) \o <<")">>
         IN  IF Len(cs) = 1 THEN one ELSE one \o <<" ">> \o Render(Tail(cs))

\* ------------------------------------------------------------------------
\* The state of a run before it starts
\* ------------------------------------------------------------------------

NoMatrix == Ok(Identity3)

RunIdle ==
    /\ width_pt = RInt(0) /\ height_pt = RInt(0)
    /\ labels = <<>>
    /\ text_nodes_to_remove = <<>>
    /\ k = 0
    /\ text_node = 0
    /\ font_size_px = RInt(0)
    /\ transform_matrix = Identity3
    /\ files = {}
    /\ typst_code = <<>>

NoDocument ==
    /\ attrib = <<>>
    /\ node = <<>>
    /\ parent = <<>>

NoParseCall ==
    /\ calls = <<>>
    /\ transform_str = <<>>
    /\ total_transform = NoMatrix

runVars == <<width_pt, height_pt, labels, text_nodes_to_remove, k,
             text_node, font_size_px, transform_matrix, files, typst_code>>
docVars == <<attrib, node>>
parseVars == <<calls, transform_str, total_transform>>

\* ------------------------------------------------------------------------
\* parse_transform applied to one transform string
\* ------------------------------------------------------------------------

InitParse ==
    /\ pc = "parse_transform"
    /\ calls \in SeqsUpTo(ParseCalls, MaxFuncs)
    /\ transform_str = Render(calls)
    /\ total_transform = NoMatrix
    /\ NoDocument
    /\ RunIdle

ParseTransform ==
    /\ pc = "parse_transform"
    /\ total_transform' = parse_transform(transform_str)
    /\ pc' = "parsed"
    /\ UNCHANGED <<calls, transform_str, docVars, parent, runVars>>

NextParse == ParseTransform

SpecParse == InitParse /\ [][NextParse]_vars

\* ------------------------------------------------------------------------
\* Properties of parse_transform
\* ------------------------------------------------------------------------

Numeric(a) == a # "x"

Translate(tx, ty) ==
    << <<RInt(1), RInt(0), tx>>, <<RInt(0), RInt(1), ty>>, <<RInt(0), RInt(0), RInt(1)>> >>

Scale(sx, sy) ==
    << <<sx, RInt(0), RInt(0)>>, <<RInt(0), sy, RInt(0)>>, <<RInt(0), RInt(0), RInt(1)>> >>

\* a recognized function written with numeric arguments in a number the
\* function takes
WellFormed(c) ==
    /\ c.func \in RecognizedFuncs
    /\ \A i \in 1..Len(c.args) : Numeric(c.args[i])
    /\ IF c.func = "matrix" THEN Len(c.args) = 6 ELSE Len(c.args) \in {1, 2}

\* a recognized function with a non-numeric argument or a wrong number of
\* arguments
Malformed(c) == c.func \in RecognizedFuncs /\ ~WellFormed(c)

\* the matrix SVG gives a well-formed function
SvgMatrix(c) ==
    LET v == [i \in 1..Len(c.args) |-> ArgValue(c.args[i])]
    IN  IF c.func = "translate"
        THEN Translate(v[1], IF Len(v) = 2 THEN v[2] ELSE RInt(0))
        ELSE IF c.func = "scale"
        THEN Scale(v[1], IF Len(v) = 2 THEN v[2] ELSE v[1])
        ELSE << <<v[1], v[3], v[5]>>, <<v[2], v[4], v[6]>>,
                <<RInt(0), RInt(0), RInt(1)>> >>

\* Mn . ... . M2 . M1 over the recognized functions of cs
RECURSIVE SvgProduct(_)
SvgProduct(cs) ==
    IF cs = <<>> THEN Identity3
    ELSE LET n == Len(cs)
             before == SvgProduct(SubSeq(cs, 1, n - 1))
         IN  IF cs[n].func \in RecognizedFuncs
             THEN MatMul(SvgMatrix(cs[n]), before)
             ELSE before

\* C2: for a transform string whose recognized functions f1..fn are well
\* formed, parse_transform returns Mn . ... . M1; unrecognized functions
\* contribute nothing, the empty string gives the identity, translate(tx) is
\* translate(tx,0) and scale(s) is scale(s,s).
C2_ParseOrder ==
    (pc = "parsed" /\ \A i \in 1..Len(calls) : ~Malformed(calls[i]))
        => total_transform = Ok(SvgProduct(calls))

\* a translate, an unrecognized function and a one-argument scale, whose two
\* orders of composition differ, have been parsed
C2_Witness ==
    /\ pc = "parsed"
    /\ Len(calls) = 3
    /\ calls[1] = Call("translate", <<"2", "-1">>, <<",">>)
    /\ calls[2].func = "rotate"
    /\ calls[3] = Call("scale", <<"2">>, <<",">>)
    /\ total_transform = Ok(<< <<RInt(2), RInt(0), RInt(4)>>,
                               <<RInt(0), RInt(2), RInt(-2)>>,
                               <<RInt(0), RInt(0), RInt(1)>> >>)

\* C5: whenever a recognized function of the string has a non-numeric
\* argument or the wrong number of arguments, parse_transform raises instead
\* of returning a matrix.
C5_MalformedRaises ==
    (pc = "parsed" /\ \E i \in 1..Len(calls) : Malformed(calls[i]))
        => total_transform.err = "ValueError"

\* ------------------------------------------------------------------------
\* parse_svg_dimensions
\* ------------------------------------------------------------------------

\* element.get(name): the attribute's value, or None
Absent == <<"None">>
Get(attrs, name) == IF name \in DOMAIN attrs THEN attrs[name] ELSE Absent

\* element.get(name, default)
GetDefault(attrs, name, default) ==
    IF name \in DOMAIN attrs THEN attrs[name] ELSE default

\* Python's truth value of what element.get returned
Truthy(s) == s # Absent /\ s # <<>>

\* re.sub(r'[^\d.]', '', s)
StripNonNumeric(s) == SelectSeq(s, LAMBDA c : c \in Digits \cup {"."})

\* str.split(), and SplitStripped: the same for a string with no whitespace
\* at its ends, given the index sp of its first whitespace (0 for none)
RECURSIVE SplitWhitespace(_)
RECURSIVE SplitStripped(_, _)
SplitWhitespace(s) ==
    SplitStripped(Strip(s),
                  FirstIn({i \in 1..Len(Strip(s)) : Strip(s)[i] \in Whitespace}, 0))

SplitStripped(t, sp) ==
    IF t = <<>> THEN <<>>
    ELSE IF sp = 0 THEN <<t>>
    ELSE <<SubSeq(t, 1, sp - 1)>> \o SplitWhitespace(SubSeq(t, sp + 1, Len(t)))

NoDims == <<RInt(0), RInt(0)>>

\* return w * PX_TO_PT, h * PX_TO_PT for the conversions w and h
InPoints(w, h) ==
    IF w.err # "" \/ h.err # "" THEN Raise("ValueError", NoDims)
    ELSE Ok(<<RMul(w.val, PX_TO_PT), RMul(h.val, PX_TO_PT)>>)

\* _, _, w_vb, h_vb = map(float, ...) and the return
ViewBoxInPoints(floats) ==
    IF Len(floats) # 4 \/ AnyRaised(floats) THEN Raise("ValueError", NoDims)
    ELSE InPoints(floats[3], floats[4])

parse_svg_dimensions(attrs) ==
    IF Truthy(Get(attrs, "width")) /\ Truthy(Get(attrs, "height"))
    THEN InPoints(Float(StripNonNumeric(attrs["width"])),
                  Float(StripNonNumeric(attrs["height"])))
    ELSE IF "viewBox" \in DOMAIN attrs
    THEN ViewBoxInPoints(FloatAll(SplitWhitespace(attrs["viewBox"])))
    ELSE Raise("ValueError", NoDims)

\* ------------------------------------------------------------------------
\* Root attributes the resolver is applied to
\* ------------------------------------------------------------------------

\* the text of a number as it stands in an attribute
NumChars(n) ==
    CASE n = "0" -> <<"0">>
      [] n = "50" -> <<"5", "0">>
      [] n = "100" -> <<"1", "0", "0">>
      [] n = "7.5" -> <<"7", ".", "5">>
      [] n = "1e2" -> <<"1", "e", "2">>
      [] n = "-5" -> <<"-", "5">>

\* the number it denotes
NumValue(n) ==
    CASE n = "0" -> RInt(0)
      [] n = "50" -> RInt(50)
      [] n = "100" -> RInt(100)
      [] n = "7.5" -> Rat(15, 2)
      [] n = "1e2" -> RInt(100)
      [] n = "-5" -> RInt(-5)

UnitChars(u) ==
    CASE u = "" -> <<>>
      [] u = "px" -> <<"p", "x">>
      [] u = "%" -> <<"%">>

\* lengths: a number followed by a unit suffix
Lengths ==
    { [num |-> "100", unit |-> "px"], [num |-> "50", unit |-> "px"],
      [num |-> "7.5", unit |-> ""], [num |-> "100", unit |-> "%"],
      [num |-> "1e2", unit |-> "px"] }

LengthChars(l) == NumChars(l.num) \o UnitChars(l.unit)

\* attribute values that are no length
NoLengths == { <<>>, <<"p", "x">>, <<"1", ".", "2", ".", "3", "p", "x">> }

\* viewBox declarations: numbers and the separator between them
ViewBoxes ==
    { [nums |-> <<"0", "0", "100", "50">>, sep |-> <<" ">>],
      [nums |-> <<"-5", "-5", "7.5", "100">>, sep |-> <<" ", " ">>],
      [nums |-> <<"0", "0", "100", "50">>, sep |-> <<",">>],
      [nums |-> <<"0", "0", "100">>, sep |-> <<" ">>] }

RECURSIVE JoinNums(_, _)
JoinNums(nums, sep) ==
    IF nums = <<>> THEN <<>>
    ELSE IF Len(nums) = 1 THEN NumChars(nums[1])
    ELSE NumChars(nums[1]) \o sep \o JoinNums(Tail(nums), sep)

ViewBoxChars(v) == JoinNums(v.nums, v.sep)

\* the attribute dictionary with the given values, Absent ones left out
RootAttrib(w, h, v) ==
    LET given == {n \in {"width", "height", "viewBox"} :
                      (CASE n = "width" -> w [] n = "height" -> h [] n = "viewBox" -> v)
                          # Absent}
    IN  [n \in given |-> CASE n = "width" -> w [] n = "height" -> h [] n = "viewBox" -> v]

SizeValues == {Absent} \cup {LengthChars(l) : l \in Lengths} \cup NoLengths
ViewBoxValues == {Absent} \cup {ViewBoxChars(v) : v \in ViewBoxes}

InitDims ==
    /\ pc = "parse_svg_dimensions"
    /\ \E w \in SizeValues, h \in SizeValues, v \in ViewBoxValues :
           attrib = RootAttrib(w, h, v)
    /\ node = <<>>
    /\ parent = <<>>
    /\ RunIdle
    /\ NoParseCall

\* the call has returned or raised r
Returned(r) ==
    /\ pc' = IF r.err = "" THEN "returned" ELSE r.err
    /\ width_pt' = r.val[1]
    /\ height_pt' = r.val[2]

ParseSvgDimensions ==
    /\ pc = "parse_svg_dimensions"
    /\ Returned(parse_svg_dimensions(attrib))
    /\ UNCHANGED <<docVars, parent, labels, text_nodes_to_remove, k, text_node,
                   font_size_px, transform_matrix, files, typst_code, parseVars>>

NextDims == ParseSvgDimensions

SpecDims == InitDims /\ [][NextDims]_vars

\* C4: with both width and height present the resolver returns 0.75 times
\* the numbers left after stripping the unit suffix; otherwise with a viewBox
\* of four numbers it returns 0.75 times the viewBox's width and height;
\* otherwise it fails.
C4_ThreeWayPolicy ==
    pc # "parse_svg_dimensions" =>
        IF "width" \in DOMAIN attrib /\ "height" \in DOMAIN attrib
        THEN \A lw \in Lengths, lh \in Lengths :
                 (attrib["width"] = LengthChars(lw) /\ attrib["height"] = LengthChars(lh))
                     => /\ pc = "returned"
                        /\ width_pt = RMul(Rat(3, 4), NumValue(lw.num))
                        /\ height_pt = RMul(Rat(3, 4), NumValue(lh.num))
        ELSE IF "viewBox" \in DOMAIN attrib
                  /\ \E v \in ViewBoxes :
                         Len(v.nums) = 4 /\ attrib["viewBox"] = ViewBoxChars(v)
        THEN \A v \in ViewBoxes :
                 (Len(v.nums) = 4 /\ attrib["viewBox"] = ViewBoxChars(v))
                     => /\ pc = "returned"
                        /\ width_pt = RMul(Rat(3, 4), NumValue(v.nums[3]))
                        /\ height_pt = RMul(Rat(3, 4), NumValue(v.nums[4]))
        ELSE pc = "ValueError"


\* ------------------------------------------------------------------------
\* The document tree
\* ------------------------------------------------------------------------

\* node[i] is [tag, attrib, text, tail]; node[1] is the root <svg>, whose
\* attributes are the variable attrib; parent[i] is the index of the parent

\* the children of element i, in document order
Children(p, i) == {j \in 1..Len(p) : p[j] = i}

RECURSIVE ConcatInOrder(_, _)
\* the concatenation of f[j] over the indices j of S, in ascending order
ConcatInOrder(S, f) ==
    IF S = {} THEN <<>>
    ELSE LET j == SetMin(S) IN f[j] \o ConcatInOrder(S \ {j}, f)

\* "".join(element.itertext())
RECURSIVE IterText(_, _, _)
IterText(nd, p, i) ==
    nd[i].text \o
        ConcatInOrder(Children(p, i),
                      [j \in Children(p, i) |-> IterText(nd, p, j) \o nd[j].tail])

\* root.xpath('//svg:text'): the text elements in document order
RECURSIVE TextNodesFrom(_, _)
TextNodesFrom(nd, i) ==
    IF i > Len(nd) THEN <<>>
    ELSE (IF nd[i].tag = "text" THEN <<i>> ELSE <<>>) \o TextNodesFrom(nd, i + 1)

TextNodes == TextNodesFrom(node, 1)

\* ------------------------------------------------------------------------
\* get_cumulative_transform
\* ------------------------------------------------------------------------

\* the break of the loop over the ancestors
StopAt(nd, a) == nd[a].tag = "svg"

\* the loop over element.iterancestors(), from ancestor a upwards, and
\* AncestorStep: its iteration for a given the parse of a's transform
RECURSIVE AncestorLoop(_, _, _, _)
RECURSIVE AncestorStep(_, _, _, _, _)
AncestorLoop(nd, p, a, transform) ==
    IF a = 0 \/ StopAt(nd, a) THEN Ok(transform)
    ELSE AncestorStep(nd, p, a, transform,
                      parse_transform(GetDefault(nd[a].attrib, "transform", <<>>)))

AncestorStep(nd, p, a, transform, ancestor_transform) ==
    IF ancestor_transform.err # "" THEN ancestor_transform
    ELSE AncestorLoop(nd, p, p[a], MatMul(ancestor_transform.val, transform))

\* return transform @ element_transform, for the outcome up of the loop
WithElementTransform(up, element_transform) ==
    IF up.err # "" THEN up
    ELSE IF element_transform.err # "" THEN element_transform
    ELSE Ok(MatMul(up.val, element_transform.val))

get_cumulative_transform(nd, p, element) ==
    WithElementTransform(
        AncestorLoop(nd, p, p[element], Identity3),
        parse_transform(GetDefault(nd[element].attrib, "transform", <<>>)))

\* ------------------------------------------------------------------------
\* The body of process_svg's loop over the text elements
\* ------------------------------------------------------------------------

\* the end of the longest run of digits and dots of style from i on
RunEnd(style, i) ==
    FirstIn({j \in i..Len(style) : style[j] \notin Digits \cup {"."}}, Len(style) + 1) - 1

\* whether ([\d.]+)px matches from i up to e
SizeAt(style, i, e) == e >= i /\ e < Len(style) /\ style[e + 1] = "px"

\* group 1 of the match at h, or Absent for h = 0
SizeGroup(style, h) ==
    IF h = 0 THEN Absent ELSE SubSeq(style, h + 1, RunEnd(style, h + 1))

\* re.search(r'font-size:([\d.]+)px', style): group 1 of the first match, or
\* Absent
FontSizeMatch(style) ==
    SizeGroup(style,
              FirstIn({i \in 1..Len(style) :
                          /\ style[i] = "font-size:"
                          /\ SizeAt(style, i + 1, RunEnd(style, i + 1))}, 0))

\* group 1 of the match at h, or Absent for h = 0
AnchorGroup(style, h) == IF h = 0 THEN Absent ELSE <<style[h + 1]>>

\* re.search(r'text-anchor:(start|middle|end)', style): group 1 of the first
\* match, or Absent
AnchorMatch(style) ==
    AnchorGroup(style,
                FirstIn({i \in 1..(Len(style) - 1) :
                            /\ style[i] = "text-anchor:"
                            /\ style[i + 1] \in {"start", "middle", "end"}}, 0))

\* the font size when the style has no font-size token
DefaultFontSize == 16

\* float(font_size_match.group(1)) if font_size_match else 16.0
FontSizeOf(font_size_match) ==
    IF font_size_match # Absent THEN Float(font_size_match)
    ELSE Ok(RInt(DefaultFontSize))

\* font_size_px
FontSize(style) == FontSizeOf(FontSizeMatch(style))

\* the anchor with the attribute taken before the style
AnchorAttrFirst(attrs, anchor_match) ==
    IF "text-anchor" \in DOMAIN attrs THEN attrs["text-anchor"]
    ELSE IF anchor_match # Absent THEN anchor_match
    ELSE <<"start">>

\* anchor_match.group(1) if anchor_match else text_node.get('text-anchor',
\* 'start')
AnchorOf(attrs, anchor_match) ==
    IF anchor_match # Absent THEN anchor_match
    ELSE GetDefault(attrs, "text-anchor", <<"start">>)

\* text_anchor
TextAnchor(attrs, style) == AnchorOf(attrs, AnchorMatch(style))

\* whether the loop skips an element with this content
SkipUnstripped(content) == content = <<>>

\* the test `if not raw_text` on the stripped content
Skip(content) == Strip(content) = <<>>

\* the length of the first row of T's linear part
HorizontalScale(T) == RSqrt(RAdd(RMul(T[1][1], T[1][1]), RMul(T[1][2], T[1][2])))

\* sy
VerticalScale(T) == RSqrt(RAdd(RMul(T[2][1], T[2][1]), RMul(T[2][2], T[2][2])))

\* ascent_estimate
AscentEstimate(final_font_size_pt) == RMul(Rat(8, 10), final_font_size_pt)

\* the dictionary, given the position and the size in points
LabelInPoints(final_x_pt, y_pt, final_font_size_pt, anchor, content) ==
    [x_pt |-> final_x_pt,
     y_pt |-> RSub(y_pt, AscentEstimate(final_font_size_pt)),
     font_size_pt |-> final_font_size_pt,
     content |-> content,
     anchor |-> anchor]

\* the dictionary, given the transformed point and the scaled size in pixels
LabelInPixels(transformed_point, final_font_size_px, anchor, content) ==
    LabelInPoints(RMul(transformed_point[1], PX_TO_PT),
                  RMul(transformed_point[2], PX_TO_PT),
                  RMul(final_font_size_px, PX_TO_PT),
                  anchor, content)

\* the dictionary appended to labels
MakeLabel(x, y, size_px, anchor, content, T) ==
    LabelInPixels(MatVec(T, <<x, y, RInt(1)>>), RMul(size_px, VerticalScale(T)),
                  anchor, content)

NoLabel ==
    [x_pt |-> RInt(0), y_pt |-> RInt(0), font_size_pt |-> RInt(0),
     content |-> <<>>, anchor |-> <<>>]

\* the outcome of one iteration: [err, skip, font_size_px, transform_matrix,
\* label]; err is the exception that ends the iteration, skip says that the
\* iteration ended at `continue`
Outcome(err, skip, size, T, label) ==
    [err |-> err, skip |-> skip, font_size_px |-> size, transform_matrix |-> T,
     label |-> label]

\* the iteration from the call of get_cumulative_transform on, T being what
\* the call returns or raises
Labelled(x, y, size, text_anchor, raw_text, T) ==
    IF T.err # "" THEN Outcome(T.err, FALSE, size, transform_matrix, NoLabel)
    ELSE Outcome("", FALSE, size, T.val,
                 MakeLabel(x, y, size, text_anchor, raw_text, T.val))

\* the iteration from the conversions of x, y and the font size on
Converted(nd, p, i, x, y, size) ==
    IF x.err # "" \/ y.err # "" \/ size.err # ""
    THEN Outcome("ValueError", FALSE, font_size_px, transform_matrix, NoLabel)
    ELSE IF Skip(IterText(nd, p, i))
    THEN Outcome("", TRUE, size.val, transform_matrix, NoLabel)
    ELSE Labelled(x.val, y.val, size.val,
                  TextAnchor(nd[i].attrib, GetDefault(nd[i].attrib, "style", <<>>)),
                  Strip(IterText(nd, p, i)),
                  get_cumulative_transform(nd, p, i))

\* one iteration for element i
ExtractLabel(nd, p, i) ==
    Converted(nd, p, i,
              Float(GetDefault(nd[i].attrib, "x", <<"0">>)),
              Float(GetDefault(nd[i].attrib, "y", <<"0">>)),
              FontSize(GetDefault(nd[i].attrib, "style", <<>>)))

\* ------------------------------------------------------------------------
\* process_svg
\* ------------------------------------------------------------------------

\* the resolution going on with no dimensions when it fails
ResolvedOrNot(r) ==
    /\ width_pt' = r.val[1]
    /\ height_pt' = r.val[2]
    /\ k' = 1
    /\ pc' = IF TextNodes = <<>> THEN "clean" ELSE "extract"

\* the try block around parse_svg_dimensions, r being what the call returns
\* or raises
Resolved(r) ==
    IF r.err # ""
    THEN /\ pc' = "exit"
         /\ UNCHANGED <<width_pt, height_pt, k>>
    ELSE /\ width_pt' = r.val[1]
         /\ height_pt' = r.val[2]
         /\ k' = 1
         /\ pc' = IF TextNodes = <<>> THEN "clean" ELSE "extract"

\* width_pt, height_pt = parse_svg_dimensions(root), and sys.exit(1) when it
\* raises ValueError
ExtractDimensions ==
    /\ pc = "dimensions"
    /\ Resolved(parse_svg_dimensions(attrib))
    /\ UNCHANGED <<docVars, parent, labels, text_nodes_to_remove, text_node,
                   font_size_px, transform_matrix, files, typst_code, parseVars>>

\* the iteration for element i with the outcome r, but for the tree
Iterate(i, r, last) ==
    /\ text_node' = i
    /\ font_size_px' = r.font_size_px
    /\ transform_matrix' = r.transform_matrix
    /\ IF r.err # ""
       THEN /\ pc' = r.err
            /\ UNCHANGED <<labels, text_nodes_to_remove, k>>
       ELSE /\ labels' = IF r.skip THEN labels ELSE Append(labels, r.label)
            /\ text_nodes_to_remove' =
                   IF r.skip THEN text_nodes_to_remove
                   ELSE Append(text_nodes_to_remove, i)
            /\ k' = IF last THEN 1 ELSE k + 1
            /\ pc' = IF last THEN "clean" ELSE "extract"

\* one iteration of the loop over the text elements, but for the tree
Iteration ==
    /\ pc = "extract"
    /\ Iterate(TextNodes[k], ExtractLabel(node, parent, TextNodes[k]),
               k = Len(TextNodes))
    /\ UNCHANGED <<docVars, width_pt, height_pt, files, typst_code, parseVars>>

\* the iteration removing the element as soon as it is marked
ProcessTextNodeEager ==
    /\ Iteration
    /\ parent' = IF Len(text_nodes_to_remove') > Len(text_nodes_to_remove)
                 THEN [parent EXCEPT ![TextNodes[k]] = 0]
                 ELSE parent

\* the body of `for text_node in root.xpath('//svg:text', ...)`
ProcessTextNode ==
    /\ Iteration
    /\ UNCHANGED parent

\* node.getparent().remove(node) for the next node of text_nodes_to_remove
RemoveNode ==
    /\ pc = "clean"
    /\ k <= Len(text_nodes_to_remove)
    /\ LET n == text_nodes_to_remove[k]
       IN  IF parent[n] = 0
           THEN /\ pc' = "AttributeError"
                /\ UNCHANGED <<parent, k>>
           ELSE /\ parent' = [parent EXCEPT ![n] = 0]
                /\ k' = k + 1
                /\ pc' = "clean"
    /\ UNCHANGED <<docVars, width_pt, height_pt, labels, text_nodes_to_remove,
                   text_node, font_size_px, transform_matrix, files, typst_code,
                   parseVars>>

\* tree.write(clean_svg_path, ...) once the removal loop is over
WriteCleanSvg ==
    /\ pc = "clean"
    /\ k > Len(text_nodes_to_remove)
    /\ files' = files \cup {"clean_svg"}
    /\ pc' = "typst"
    /\ UNCHANGED <<docVars, parent, width_pt, height_pt, labels,
                   text_nodes_to_remove, k, text_node, font_size_px,
                   transform_matrix, typst_code, parseVars>>

\* align_map.get(label['anchor'], 'left')
TypstAlign(anchor) ==
    CASE anchor = <<"start">> -> "left"
      [] anchor = <<"middle">> -> "center"
      [] anchor = <<"end">> -> "right"
      [] OTHER -> "left"

\* content.replace('\\', '\\\\').replace('"', '\\"')
RECURSIVE Escape(_)
Escape(content) ==
    IF content = <<>> THEN <<>>
    ELSE (IF Head(content) \in {"\\", "\""} THEN <<"\\", Head(content)>>
          ELSE <<Head(content)>>) \o Escape(Tail(content))

\* the place(...) call of one label; the numbers are written with four
\* decimals, which is not modelled
MoveCall(label) ==
    [dx |-> label.x_pt, dy |-> label.y_pt, align |-> TypstAlign(label.anchor),
     size |-> label.font_size_pt, text |-> Escape(label.content)]

\* the overlay script is generated and written
WriteTypst ==
    /\ pc = "typst"
    /\ typst_code' = [j \in 1..Len(labels) |-> MoveCall(labels[j])]
    /\ files' = files \cup {"typ"}
    /\ pc' = "done"
    /\ UNCHANGED <<docVars, parent, width_pt, height_pt, labels,
                   text_nodes_to_remove, k, text_node, font_size_px,
                   transform_matrix, parseVars>>

\* ------------------------------------------------------------------------
\* Documents the run is applied to
\* ------------------------------------------------------------------------

Elem(tag, attrs, text, tail) ==
    [tag |-> tag, attrib |-> attrs, text |-> text, tail |-> tail]

\* the attribute dictionary f without its Absent values
DropAbsent(f) == [n \in {m \in DOMAIN f : f[m] # Absent} |-> f[n]]

NoAttrs == DropAbsent([n \in {} |-> Absent])

TransformAttr(t) == DropAbsent([n \in {"transform"} |-> t])

Root == Elem("svg", NoAttrs, <<>>, <<>>)

SizedRoot == RootAttrib(<<"1", "0", "0", "p", "x">>, <<"5", "0", "p", "x">>, Absent)

\* the attribute text of the function calls cs
Written(cs) == Render(cs)

\* a text element under a chain of ancestors --------------------------------

ChainTransforms ==
    { Absent,
      Written(<<Call("translate", <<"1", "0">>, <<",">>)>>),
      Written(<<Call("scale", <<"2">>, <<",">>)>>) }

ChainLevels == {[tag |-> t, transform |-> tr] : t \in {"g", "svg"}, tr \in ChainTransforms}

OwnTransforms == { Absent, Written(<<Call("translate", <<"3", "5">>, <<" ">>)>>) }

\* chain[1] is the outermost ancestor below the root
ChainDoc(chain, own) ==
    LET d == Len(chain)
    IN  [attrib |-> SizedRoot,
         node |-> <<Root>>
                  \o [i \in 1..d |->
                         Elem(chain[i].tag, TransformAttr(chain[i].transform), <<>>, <<>>)]
                  \o <<Elem("text", TransformAttr(own), <<"a">>, <<>>)>>,
         parent |-> <<0>> \o [i \in 1..d |-> i] \o <<d + 1>>]

ChainDocs == {ChainDoc(c, o) : c \in SeqsUpTo(ChainLevels, MaxDepth), o \in OwnTransforms}

\* one text element in a group ----------------------------------------------

\* style strings, each with the font size and the anchor token a reader of
\* the string finds in it ("" for no anchor token)
Styles ==
    { [lex |-> Absent, size |-> RInt(16), malformed |-> FALSE, token |-> ""],
      [lex |-> <<"font-size:", "2", "0", "px", ";", "text-anchor:", "middle">>,
       size |-> RInt(20), malformed |-> FALSE, token |-> "middle"],
      [lex |-> <<"font-size:", "1", ".", "2", ".", "3", "px">>,
       size |-> RInt(16), malformed |-> TRUE, token |-> ""],
      [lex |-> <<"font-size:", ".", "px", ";", "text-anchor:", "start">>,
       size |-> RInt(16), malformed |-> TRUE, token |-> "start"],
      [lex |-> <<"font-size:", "px">>,
       size |-> RInt(16), malformed |-> TRUE, token |-> ""],
      [lex |-> <<"font-size:", "1", "2", "pt", ";", "text-anchor:", "end">>,
       size |-> RInt(16), malformed |-> FALSE, token |-> "end"],
      [lex |-> <<"fill:red", ";", "font-size:", "7", ".", "5", "px">>,
       size |-> Rat(15, 2), malformed |-> FALSE, token |-> ""],
      [lex |-> <<"text-anchor:", "inherit">>,
       size |-> RInt(16), malformed |-> FALSE, token |-> ""] }

AnchorAttrs == { Absent, <<"end">>, <<"middle">>, <<"inherit">> }

XAttrs == { [lex |-> Absent, val |-> RInt(0)], [lex |-> <<"1", "0">>, val |-> RInt(10)] }
YAttrs == { [lex |-> Absent, val |-> RInt(0)], [lex |-> <<"2", "0">>, val |-> RInt(20)] }

GroupTransforms ==
    { Absent,
      Written(<<Call("translate", <<"5", "5">>, <<",">>)>>),
      Written(<<Call("scale", <<"1", "3">>, <<",">>)>>),
      Written(<<Call("scale", <<"2", "-1">>, <<",">>), Call("translate", <<"1", "0">>, <<",">>)>>),
      Written(<<Call("matrix", <<"0", "1", "-1", "0", "2", "3">>, <<",">>)>>) }

TextTransforms ==
    { Absent,
      Written(<<Call("translate", <<"2", "-1">>, <<",">>)>>),
      Written(<<Call("scale", <<"0.5", "-3">>, <<" ">>)>>) }

TextAttrs(x, y, style, anchor, transform) ==
    DropAbsent(("x" :> x) @@ ("y" :> y) @@ ("style" :> style)
                   @@ ("text-anchor" :> anchor) @@ ("transform" :> transform))

LabelDoc(gt, tt, x, y, style, anchor) ==
    [attrib |-> SizedRoot,
     node |-> <<Root,
                Elem("g", TransformAttr(gt), <<>>, <<>>),
                Elem("text", TextAttrs(x, y, style, anchor, tt), <<"a", " ", "b">>, <<>>)>>,
     parent |-> <<0, 1, 2>>]

LabelDocs ==
    {LabelDoc(gt, tt, x.lex, y.lex, st.lex, an) :
        gt \in GroupTransforms, tt \in TextTransforms, x \in XAttrs, y \in YAttrs,
        st \in Styles, an \in AnchorAttrs}

\* several text elements under the root --------------------------------------

\* the elements of one text element: itself, then its tspan children
Contents ==
    { <<Elem("text", NoAttrs, <<>>, <<>>)>>,
      <<Elem("text", NoAttrs, <<" ">>, <<" ">>)>>,
      <<Elem("text", NoAttrs, <<"a">>, <<>>)>>,
      <<Elem("text", NoAttrs, <<" ">>, <<>>),
        Elem("tspan", NoAttrs, <<"a">>, <<" ">>),
        Elem("tspan", NoAttrs, <<"b", " ">>, <<" ">>)>>,
      <<Elem("text", TextAttrs(<<"1", "0", "p", "x">>, Absent, Absent, Absent, Absent),
             <<"a">>, <<>>)>>,
      <<Elem("text", TextAttrs(Absent, Absent, <<"font-size:", "1", ".", "2", ".", "3", "px">>,
                               Absent, Absent),
             <<" ">>, <<>>)>>,
      <<Elem("text", TextAttrs(Absent, Absent, Absent, Absent,
                               Written(<<Call("translate", <<"x">>, <<",">>)>>)),
             <<"a">>, <<>>)>>,
      <<Elem("text", TextAttrs(Absent, Absent, Absent, Absent,
                               Written(<<Call("translate", <<"x">>, <<",">>)>>)),
             <<>>, <<>>)>> }

RECURSIVE MultiDocFrom(_, _, _)
\* the document of root attributes ra holding the text elements cs in order
MultiDocFrom(ra, cs, doc) ==
    IF cs = <<>> THEN doc
    ELSE LET base == Len(doc.node) + 1
             c == Head(cs)
         IN  MultiDocFrom(ra, Tail(cs),
                 [attrib |-> ra,
                  node |-> doc.node \o c,
                  parent |-> doc.parent \o [i \in 1..Len(c) |-> IF i = 1 THEN 1 ELSE base]])

MultiDoc(ra, cs) == MultiDocFrom(ra, cs, [attrib |-> ra, node |-> <<Root>>, parent |-> <<0>>])

MultiDocs ==
    {MultiDoc(ra, cs) : ra \in {SizedRoot, NoAttrs}, cs \in SeqsUpTo(Contents, MaxTexts)}

Documents == ChainDocs \cup LabelDocs \cup MultiDocs

Init ==
    /\ pc = "dimensions"
    /\ \E d \in Documents :
           /\ attrib = d.attrib
           /\ node = d.node
           /\ parent = d.parent
    /\ RunIdle
    /\ NoParseCall

Next ==
    \/ ExtractDimensions
    \/ ProcessTextNode
    \/ RemoveNode
    \/ WriteCleanSvg
    \/ WriteTypst

Spec == Init /\ [][Next]_vars

\* ------------------------------------------------------------------------
\* Properties of the run
\* ------------------------------------------------------------------------

Last(q) == q[Len(q)]
Range(q) == {q[i] : i \in 1..Len(q)}

\* the last iteration appended a label, and its element is still in the tree
JustLabelled ==
    /\ text_node # 0
    /\ text_nodes_to_remove # <<>>
    /\ Last(text_nodes_to_remove) = text_node
    /\ parent[text_node] # 0

\* the element's own parsed transform
OwnMatrix(i) == parse_transform(GetDefault(node[i].attrib, "transform", <<>>)).val

\* (outermost ancestor below the root) . ... . (element a)
RECURSIVE ProductDownTo(_)
ProductDownTo(a) ==
    IF a = 0 \/ a = 1 THEN Identity3
    ELSE MatMul(ProductDownTo(parent[a]), OwnMatrix(a))

\* C1: the cumulative transform of a text element is the product of the
\* matrices of all its ancestors strictly below the document root, outermost
\* first, times the element's own matrix, whatever the ancestors are.
C1_CumulativeProduct ==
    JustLabelled => transform_matrix = ProductDownTo(text_node)

\* the element and its ancestors below the root
RECURSIVE ChainOf(_)
ChainOf(a) == IF a = 0 \/ a = 1 THEN {} ELSE {a} \cup ChainOf(parent[a])

\* the cumulative transform of element i is built from translate and scale
TranslateScaleOnly(i) ==
    \A a \in ChainOf(i) :
        LET t == GetDefault(node[a].attrib, "transform", <<>>)
        IN  \A j \in 1..Len(t) : t[j] # "matrix"

\* the relation of C3 between the label and the element, for a vertical
\* scale factor kv
LabelFormula(label, x, y, s, kv) ==
    LET p == MatVec(transform_matrix, <<x, y, RInt(1)>>)
    IN  /\ label.x_pt = RMul(Rat(3, 4), p[1])
        /\ label.font_size_pt = RMul(Rat(3, 4), RMul(kv, s))
        /\ label.y_pt = RSub(RMul(Rat(3, 4), p[2]), RMul(Rat(4, 5), label.font_size_pt))

\* what C3 says of the label just appended, k being taken from T by f
LabelRelation(f(_)) ==
    (JustLabelled /\ TranslateScaleOnly(text_node)) =>
        \A xa \in XAttrs, ya \in YAttrs, st \in Styles :
            LET attrs == node[text_node].attrib
            IN  (/\ GetDefault(attrs, "x", Absent) = xa.lex
                 /\ GetDefault(attrs, "y", Absent) = ya.lex
                 /\ GetDefault(attrs, "style", Absent) = st.lex)
                    => LabelFormula(Last(labels), xa.val, ya.val, st.size,
                                    f(transform_matrix[2][2]))

SameFactor(kv) == kv

\* C3 as stated: with (x', y', 1) = T . (x, y, 1) and k the vertical scale
\* factor of T, x_pt = 0.75 x', font_size_pt = 0.75 k s and
\* y_pt = 0.75 y' - 0.8 font_size_pt.
C3_LabelAsStated == LabelRelation(SameFactor)

\* C3 amended: the same with the magnitude |k| of the vertical scale factor
\* in place of k.
C3_LabelMagnitude == LabelRelation(RAbs)

\* local (10,20) under translate(5,5) with font-size:20px has given
\* x_pt 11.25, font_size_pt 15 and y_pt 6.75
C3_Witness ==
    /\ JustLabelled
    /\ TranslateScaleOnly(text_node)
    /\ GetDefault(node[text_node].attrib, "x", Absent) = <<"1", "0">>
    /\ GetDefault(node[text_node].attrib, "y", Absent) = <<"2", "0">>
    /\ transform_matrix = Translate(RInt(5), RInt(5))
    /\ Last(labels).x_pt = Rat(45, 4)
    /\ Last(labels).font_size_pt = RInt(15)
    /\ Last(labels).y_pt = Rat(27, 4)

\* the failures of a run: of the dimension resolution, and of the extraction
\* of a text element
DimensionsFail == parse_svg_dimensions(attrib).err # ""
ExtractionFails(i) == ExtractLabel(node, parent, i).err # ""
Defective == DimensionsFail \/ \E j \in 1..Len(TextNodes) : ExtractionFails(TextNodes[j])

\* no element has been removed from the tree
Intact == \A n \in 2..Len(node) : parent[n] # 0

Letters(q) == \E j \in 1..Len(q) : q[j] \notin Whitespace

\* the concatenated content of element i is not empty after trimming
Inked(i) ==
    \/ Letters(node[i].text)
    \/ \E j \in 2..Len(node) :
           /\ j # i
           /\ i \in ChainOf(j) \/ (parent[i] = 0 /\ parent[j] = i)
           /\ Letters(node[j].text) \/ Letters(node[j].tail)

\* C6: a run whose dimension resolution or whose extraction of some text
\* element fails aborts with no output written and no node removed, and a
\* run that ends otherwise has written both outputs, from the resolved
\* dimensions and the labels of all text elements with content.
C6_NoPartialOutput ==
    /\ Defective => /\ pc \in {"dimensions", "extract", "exit", "ValueError"}
                    /\ files = {} /\ typst_code = <<>> /\ Intact
    /\ pc \in {"exit", "ValueError"} => Defective
    /\ pc # "AttributeError"
    /\ pc = "done" =>
           /\ files = {"clean_svg", "typ"}
           /\ <<width_pt, height_pt>> = parse_svg_dimensions(attrib).val
           /\ Len(labels) = Len(SelectSeq(TextNodes, Inked))
           /\ Len(typst_code) = Len(labels)

\* the extraction has failed at a later element, after a label was made
C6_Witness ==
    /\ pc = "ValueError"
    /\ labels # <<>>
    /\ files = {}
    /\ Intact

\* the number of text elements whose iteration is over
Processed ==
    IF pc \in {"dimensions", "exit"} THEN 0
    ELSE IF pc \in {"extract", "ValueError"} THEN k - 1
    ELSE Len(TextNodes)

\* C7: after any prefix of the text elements, the labels and the removal list
\* are, in document order, those of the processed elements whose trimmed
\* content is not empty; the others have no label and are not marked.
C7_Correspondence ==
    LET marked == SelectSeq(SubSeq(TextNodes, 1, Processed), Inked)
    IN  /\ text_nodes_to_remove = marked
        /\ Len(labels) = Len(marked)
        /\ \A j \in 1..Len(marked) :
               /\ labels[j].content # <<>>
               /\ labels[j].content = Strip(IterText(node, parent, marked[j]))

\* three text elements are processed, the second one blank and unmarked
C7_Witness ==
    /\ pc = "clean"
    /\ Len(TextNodes) = 3
    /\ text_nodes_to_remove = <<TextNodes[1], TextNodes[3]>>
    /\ Letters(node[TextNodes[2]].text) = FALSE
    /\ node[TextNodes[2]].text # <<>>

\* C8 as stated: every label's anchor is one of start, middle, end: the
\* style's text-anchor token when present, otherwise the text-anchor
\* attribute, otherwise start.
C8_AnchorAsStated ==
    \A j \in 1..Len(labels) :
        LET attrs == node[text_nodes_to_remove[j]].attrib
        IN  /\ labels[j].anchor \in {<<"start">>, <<"middle">>, <<"end">>}
            /\ \A st \in Styles :
                   GetDefault(attrs, "style", Absent) = st.lex =>
                       labels[j].anchor =
                           IF st.token # "" THEN <<st.token>>
                           ELSE GetDefault(attrs, "text-anchor", <<"start">>)

\* C8 amended: a label's anchor is the style's text-anchor token when
\* present, otherwise the text-anchor attribute as written, whatever it is,
\* otherwise start; the alignment written for it is center for middle, right
\* for end and left for anything else.
C8_AnchorOrAttribute ==
    /\ \A j \in 1..Len(labels) :
           LET attrs == node[text_nodes_to_remove[j]].attrib
           IN  \A st \in Styles :
                   GetDefault(attrs, "style", Absent) = st.lex =>
                       labels[j].anchor =
                           IF st.token # "" THEN <<st.token>>
                           ELSE GetDefault(attrs, "text-anchor", <<"start">>)
    /\ pc = "done" =>
           \A j \in 1..Len(labels) :
               typst_code[j].align =
                   IF labels[j].anchor = <<"middle">> THEN "center"
                   ELSE IF labels[j].anchor = <<"end">> THEN "right"
                   ELSE "left"

\* a style with the token end on an element whose attribute says middle
C8_Witness ==
    /\ pc = "done"
    /\ Len(labels) = 1
    /\ GetDefault(node[text_nodes_to_remove[1]].attrib, "text-anchor", Absent) = <<"middle">>
    /\ labels[1].anchor = <<"end">>
    /\ typst_code[1].align = "right"

\* the failures of an iteration that the font size has no part in
OtherFailure(i) ==
    \/ Float(GetDefault(node[i].attrib, "x", <<"0">>)).err # ""
    \/ Float(GetDefault(node[i].attrib, "y", <<"0">>)).err # ""
    \/ /\ ~Skip(IterText(node, parent, i))
       /\ get_cumulative_transform(node, parent, i).err # ""

\* C9: the nominal font size is the number of the style's font-size token,
\* and 16 when the token is absent or malformed; a malformed font size never
\* makes the run fail.
C9_FontSizeDefault ==
    (text_node # 0 /\ parent[text_node] # 0 /\ ~OtherFailure(text_node)) =>
        \A st \in Styles :
            GetDefault(node[text_node].attrib, "style", Absent) = st.lex =>
                /\ pc # "ValueError"
                /\ font_size_px = st.size

\* C10: no step of the extraction pass changes the tree; a removed node is
\* never put back; a step that changes the tree removes one marked node that
\* was still in it; and at the end the removed nodes are the marked ones.
C10_RemovalAfterExtraction ==
    [][/\ pc \in {"dimensions", "extract"} => parent' = parent
       /\ \A n \in 1..Len(parent) : parent[n] = 0 => parent'[n] = 0
       /\ parent' # parent =>
              \E n \in Range(text_nodes_to_remove) :
                  /\ parent[n] # 0
                  /\ parent' = [parent EXCEPT ![n] = 0]
       /\ pc' = "done" =>
              \A n \in 2..Len(parent) :
                  parent'[n] = 0 <=> n \in Range(text_nodes_to_remove')]_vars

\* the run is over, two nodes were removed and an unmarked text element is
\* still in the tree
C10_Witness ==
    /\ pc = "done"
    /\ Len(text_nodes_to_remove) = 2
    /\ \A j \in 1..2 : parent[text_nodes_to_remove[j]] = 0
    /\ \E j \in 1..Len(TextNodes) : parent[TextNodes[j]] # 0

====
